---- MODULE Spec2Model ----
(***************************************************************************)
(* A model of role-assignment-tui's resource-group TUI command             *)
(* (src/src/cli/command/resource_group_tui/mod.rs): the five background    *)
(* loads queued by ResourceGroupTuiArgs::invoke, the channel of merge      *)
(* closures held by AppWorkState, and the cooperative render loop.         *)
(*                                                                         *)
(* Loadable, LoadableWorkBuilder and AppWorkState live in the crate        *)
(* cloud_terrastodon_command::app_work, whose text is not among the        *)
(* source files; their definitions below follow spec.md sections 3 and 4.  *)
(* Timestamps (started_at, loaded_at, failed_at) are left out: no          *)
(* operation reads them.                                                   *)
(***************************************************************************)
EXTENDS Integers, Sequences, FiniteSets, TLC

VARIABLES
    pc,             \* position of the owning thread in invoke
    data,           \* app.data : AppData
    chan,           \* app.work : closures queued on the channel, oldest first
    tasks,          \* spawned tasks, in spawn order
    rg_list_state,  \* app.rg_list_state.selected : None or an index
    terminal,       \* "normal" | "tui"
    frame,          \* what the last terminal.draw rendered
    builder,        \* the LoadableWorkBuilder under construction
    built,          \* the result of the last build()
    sent,           \* history: task ids in the order their closures were pushed
    applied,        \* history: task ids in the order their closures were invoked
    undrawn         \* history: a closure was invoked since the last terminal.draw

vars == <<pc, data, chan, tasks, rg_list_state, terminal, frame, builder, built,
          sent, applied, undrawn>>

None == "None"

\* ListState::selected == None
NoneSelected == -1

\* no entry for a key of principal_display
NoEntry == <<>>

\* ------------------------------------------------------------------ bounds
MaxTasks == 3          \* tasks a free caller may spawn
MaxBuilt == 1          \* descriptors a user of the builder may enqueue
UsizeMax == 3          \* usize::MAX scaled down for ListState's saturating arithmetic:
                       \* above every list length of the model, so render clamps
                       \* each larger index alike

\* -------------------------------------------------------------- Loadable<T>
NotLoaded == [tag |-> "NotLoaded"]
Loading == [tag |-> "Loading"]
Loaded(v) == [tag |-> "Loaded", value |-> v]
Failed(e) == [tag |-> "Failed", error |-> e]

Ok(v) == [ok |-> TRUE, value |-> v]
Err(e) == [ok |-> FALSE, error |-> e]

\* error.to_string(): the error's text
ErrorText(e) == e.msg

\* complete(now, Result<T,E>)
Complete(result) ==
    IF result.ok THEN Loaded(result.value) ELSE Failed(ErrorText(result.error))

IsTerminal(l) == l.tag \in {"Loaded", "Failed"}

\* ---------------------------------------------------------------- AppData
Slots == {"resource_groups", "rbac", "service_principals", "users", "security_groups"}

PrincipalIds == {1, 2}

AppDataDefault ==
    [resource_groups |-> NotLoaded,
     rbac |-> NotLoaded,
     users |-> NotLoaded,
     service_principals |-> NotLoaded,
     security_groups |-> NotLoaded,
     principal_display |-> [p \in PrincipalIds |-> NoEntry]]

\* HashMap::insert for every element of a loaded Vec, in order
RECURSIVE InsertAll(_, _, _)
InsertAll(display, principals, prefix) ==
    IF principals = <<>> THEN display
    ELSE InsertAll([display EXCEPT ![Head(principals).id] =
                        <<prefix, Head(principals).display_name>>],
                   Tail(principals), prefix)

\* the five setters handed to the builder
\* (mutant) data already Loaded is kept on screen while it is fetched again
SetResourceGroupsKeepLoaded(state, value) ==
    IF value.tag = "Loading" /\ state.resource_groups.tag = "Loaded" THEN state
    ELSE [state EXCEPT !.resource_groups = value]

SetResourceGroups(state, value) == [state EXCEPT !.resource_groups = value]

\* (mutant) a failure puts the slot back to its default
SetRbacResetOnFailure(state, value) ==
    [state EXCEPT !.rbac = IF value.tag = "Failed" THEN NotLoaded ELSE value]

\* (mutant) the closure copied from the chain above, still writing its slot
SetRbacWrongSlot(state, value) == [state EXCEPT !.resource_groups = value]

\* (mutant) a failure of rbac is stored in resource_groups as well
SetRbacFailurePoisons(state, value) ==
    IF value.tag = "Failed"
    THEN [state EXCEPT !.rbac = value, !.resource_groups = value]
    ELSE [state EXCEPT !.rbac = value]

SetRbac(state, value) == [state EXCEPT !.rbac = value]

\* (mutant) a Failed completion returns early and is never stored
SetServicePrincipalsDropsFailure(state, loadable) ==
    IF loadable.tag = "Failed" THEN state
    ELSE [state EXCEPT
            !.principal_display =
                IF loadable.tag = "Loaded"
                THEN InsertAll(@, loadable.value, "(Service Principal) ")
                ELSE @,
            !.service_principals = loadable]

SetServicePrincipals(state, loadable) ==
    [state EXCEPT
        !.principal_display =
            IF loadable.tag = "Loaded"
            THEN InsertAll(@, loadable.value, "(Service Principal) ")
            ELSE @,
        !.service_principals = loadable]

\* (mutant) a completion is dropped when the slot is already Loaded or Failed
SetUsersFirstWins(state, loadable) ==
    IF loadable.tag \in {"Loaded", "Failed"} /\ state.users.tag \in {"Loaded", "Failed"}
    THEN state
    ELSE [state EXCEPT
            !.principal_display =
                IF loadable.tag = "Loaded"
                THEN InsertAll(@, loadable.value, "(User) ")
                ELSE @,
            !.users = loadable]

\* (mutant) entry(id).or_insert: an id that has an entry keeps it
SetUsersKeepsExisting(state, loadable) ==
    [state EXCEPT
        !.principal_display =
            IF loadable.tag = "Loaded"
            THEN LET fresh == InsertAll(@, loadable.value, "(User) ")
                 IN  [p \in PrincipalIds |-> IF @[p] # NoEntry THEN @[p] ELSE fresh[p]]
            ELSE @,
        !.users = loadable]

SetUsers(state, loadable) ==
    [state EXCEPT
        !.principal_display =
            IF loadable.tag = "Loaded"
            THEN InsertAll(@, loadable.value, "(User) ")
            ELSE @,
        !.users = loadable]

\* (mutant) the slot is assigned only in the `if let Loaded` branch
SetSecurityGroupsLoadedOnly(state, loadable) ==
    IF loadable.tag = "Loaded"
    THEN [state EXCEPT
            !.principal_display = InsertAll(@, loadable.value, "(Group) "),
            !.security_groups = loadable]
    ELSE IF loadable.tag = "Loading" THEN [state EXCEPT !.security_groups = loadable]
    ELSE state

SetSecurityGroups(state, loadable) ==
    [state EXCEPT
        !.principal_display =
            IF loadable.tag = "Loaded"
            THEN InsertAll(@, loadable.value, "(Group) ")
            ELSE @,
        !.security_groups = loadable]

\* invoking the setter closure that was given for `slot`
Setter(slot, state, loadable) ==
    CASE slot = "resource_groups" -> SetResourceGroups(state, loadable)
      [] slot = "rbac" -> SetRbac(state, loadable)
      [] slot = "service_principals" -> SetServicePrincipals(state, loadable)
      [] slot = "users" -> SetUsers(state, loadable)
      [] slot = "security_groups" -> SetSecurityGroups(state, loadable)

\* ------------------------------------------------- the futures' outcomes
Boom == [msg |-> "boom"]

ResourceGroupValues == {<<[id |-> "rg0", name |-> "rg0"], [id |-> "rg1", name |-> "rg1"]>>}

RbacValues == {<<[scope |-> "rg0", role |-> "Reader", principal_id |-> 1]>>}

ServicePrincipalValues == {<<[id |-> 1, display_name |-> "app"]>>}

UserValues == {<<[id |-> 1, display_name |-> "alice"]>>, <<[id |-> 2, display_name |-> "bob"]>>}

GroupValues == {<<[id |-> 2, display_name |-> "admins"]>>}

Values(slot) ==
    CASE slot = "resource_groups" -> ResourceGroupValues
      [] slot = "rbac" -> RbacValues
      [] slot = "service_principals" -> ServicePrincipalValues
      [] slot = "users" -> UserValues
      [] slot = "security_groups" -> GroupValues

\* what the future given to work() for `slot` can resolve to
FutureResults(slot) == {Ok(v) : v \in Values(slot)} \cup {Err(Boom)}

\* ------------------------------------------------- LoadableWorkBuilder
Fields == {"description", "setter", "work"}

BuilderNew == [description |-> None, setter |-> None, work |-> None]

Description(b, d) == [b EXCEPT !.description = d]

WithSetter(b, s) == [b EXCEPT !.setter = s]

Work(b, w) == [b EXCEPT !.work = w]

Missing(b) == {f \in Fields : b[f] = None}

MissingField(f) == [kind |-> "MissingField", field |-> f]

\* build(): the descriptor, or a MissingField error naming an absent field
BuildResults(b) ==
    IF Missing(b) = {} THEN {Ok(b)}
    ELSE {Err(MissingField(f)) : f \in Missing(b)}

NotBuilt == Err([kind |-> "NotBuilt", field |-> None])

\* the five builder chains of invoke
Descriptions ==
    [resource_groups |-> "fetch_all_resource_groups",
     rbac |-> "fetch_all_role_definitions_and_assignments",
     service_principals |-> "fetch_all_service_principals",
     users |-> "fetch_all_users",
     security_groups |-> "fetch_all_security_groups"]

\* (mutant) a chain without its .description(..) call
BuilderChainNoDescription(slot) == Work(WithSetter(BuilderNew, slot), slot)

BuilderChain(slot) == Work(WithSetter(Description(BuilderNew, Descriptions[slot]), slot), slot)

\* ------------------------------------------------------ AppWorkState
\* enqueue step 1: the slot is marked Loading through the descriptor's setter
MarkLoading(descriptor, state) == Setter(descriptor.setter, state, Loading)

NoResult == [ok |-> FALSE, error |-> [msg |-> None]]

\* (mutant) step 1 has marked the slot and the failed spawn does not undo it
SpawnFailedLeavesLoading(descriptor, state) == Setter(descriptor.setter, state, Loading)

\* enqueue when the spawn fails: the error is returned and the slot is as it
\* was before the call
SpawnFailed(descriptor, state) == state

\* enqueue step 2: the future is spawned
Spawn(descriptor, ts) ==
    Append(ts, [setter |-> descriptor.setter, work |-> descriptor.work,
                description |-> descriptor.description, state |-> "running",
                result |-> NoResult])

\* (mutant) the newest closure is taken first
DrainOrderLifo(q) == [i \in 1..Len(q) |-> q[Len(q) + 1 - i]]

\* the order in which handle_messages takes closures off the channel
DrainOrder(q) == q

\* (mutant) the closures are invoked on a fresh AppData::default()
RECURSIVE ApplyAllFromDefault(_, _)
ApplyAllFromDefault(msgs, state) ==
    IF msgs = <<>> THEN AppDataDefault
    ELSE LET rest == ApplyAllFromDefault(SubSeq(msgs, 1, Len(msgs) - 1), state)
         IN  Setter(msgs[Len(msgs)].setter, rest, msgs[Len(msgs)].loadable)

\* invoking drained closures one after the other
RECURSIVE ApplyAll(_, _)
ApplyAll(msgs, state) ==
    IF msgs = <<>> THEN state
    ELSE ApplyAll(Tail(msgs), Setter(Head(msgs).setter, state, Head(msgs).loadable))

TaskIds(msgs) == [i \in 1..Len(msgs) |-> msgs[i].task]

\* handle_messages(&mut app_state): non-blocking receive until the channel is empty
HandleMessagesEffect ==
    /\ data' = ApplyAll(DrainOrder(chan), data)
    /\ applied' = applied \o TaskIds(DrainOrder(chan))
    /\ chan' = <<>>

\* a task's future resolves; the task pushes |state| setter(state, loadable)
TaskComplete(t) ==
    /\ tasks[t].state = "running"
    /\ \E r \in FutureResults(tasks[t].work) :
        /\ tasks' = [tasks EXCEPT ![t].state = "done", ![t].result = r]
        /\ chan' = Append(chan, [task |-> t, setter |-> tasks[t].setter,
                                 loadable |-> Complete(r)])
    /\ sent' = Append(sent, t)
    /\ UNCHANGED <<pc, data, rg_list_state, terminal, frame, builder, built, applied,
                   undrawn>>

\* ------------------------------------------------------------ ListState
Min(a, b) == IF a < b THEN a ELSE b

Max(a, b) == IF a > b THEN a ELSE b

\* select_next / select_previous: saturating; select_first / select_last
SelectNext(sel) == IF sel = NoneSelected THEN 0 ELSE Min(sel + 1, UsizeMax)

SelectPrevious(sel) == IF sel = NoneSelected THEN UsizeMax ELSE Max(sel - 1, 0)

SelectFirst == 0

SelectLast == UsizeMax

\* for _ in 0..10
PageStep == 10

RECURSIVE Repeat(_, _, _)
Repeat(next, n, sel) ==
    IF n = 0 THEN sel
    ELSE Repeat(next, n - 1, IF next THEN SelectNext(sel) ELSE SelectPrevious(sel))

\* ------------------------------------------------------------- key events
KeyCodes == {"Esc", "q", "Down", "Up", "PageDown", "PageUp", "Home", "End", "Other"}

Events ==
    [type : {"Key"}, kind : {"Press", "Release"}, code : KeyCodes]
        \cup {[type |-> "Resize", kind |-> None, code |-> None]}

IsQuit(e) == e.type = "Key" /\ e.kind = "Press" /\ e.code \in {"Esc", "q"}

\* the match on key.code, for a Press that is not a quit key
OnKey(code, sel) ==
    CASE code = "Down" -> SelectNext(sel)
      [] code = "Up" -> SelectPrevious(sel)
      [] code = "PageDown" -> Repeat(TRUE, PageStep, sel)
      [] code = "PageUp" -> Repeat(FALSE, PageStep, sel)
      [] code = "Home" -> SelectLast
      [] code = "End" -> SelectFirst
      [] OTHER -> sel

\* ---------------------------------------------------------------- render
\* the selection after List's stateful render has clamped it to the items
ListRender(items, sel) ==
    IF items = <<>> THEN NoneSelected
    ELSE IF sel # NoneSelected /\ sel >= Len(items) THEN Len(items) - 1
    ELSE sel

\* Left: Resource Groups List
RgItems(d) ==
    CASE d.resource_groups.tag = "Loaded" ->
            [i \in 1..Len(d.resource_groups.value) |-> <<d.resource_groups.value[i].name>>]
      [] d.resource_groups.tag = "Loading" -> << <<"Loading resource groups...">> >>
      [] d.resource_groups.tag = "Failed" -> << <<"Error: ", d.resource_groups.error>> >>
      [] d.resource_groups.tag = "NotLoaded" -> << <<"Not loaded">> >>

RECURSIVE Filter(_, _)
Filter(assignments, scope) ==
    IF assignments = <<>> THEN <<>>
    ELSE (IF Head(assignments).scope = scope THEN <<Head(assignments)>> ELSE <<>>)
            \o Filter(Tail(assignments), scope)

PrincipalText(d, id) ==
    IF d.principal_display[id] # NoEntry THEN d.principal_display[id]
    ELSE <<ToString(id)>>

\* (mutant) the Failed arm is written before the Loading arm
RightWidgetFailedFirst(d, sel) ==
    IF d.resource_groups.tag = "Loaded" /\ d.rbac.tag = "Loaded"
    THEN IF sel # NoneSelected /\ sel < Len(d.resource_groups.value)
         THEN LET rg == d.resource_groups.value[sel + 1]
                  assignments == Filter(d.rbac.value, rg.id)
              IN  IF assignments = <<>> THEN << <<"No role assignments.">> >>
                  ELSE [i \in 1..Len(assignments) |->
                         <<assignments[i].role, ": ">>
                             \o PrincipalText(d, assignments[i].principal_id)]
         ELSE << <<"No resource group selected.">> >>
    ELSE IF d.resource_groups.tag = "Failed"
    THEN << <<"Error: ", d.resource_groups.error>> >>
    ELSE IF d.rbac.tag = "Failed"
    THEN << <<"Error: ", d.rbac.error>> >>
    ELSE IF d.resource_groups.tag = "Loading" \/ d.rbac.tag = "Loading"
    THEN << <<"Loading...">> >>
    ELSE << <<"Not loaded.">> >>

\* Right: Role Assignments for selected RG
RightWidget(d, sel) ==
    IF d.resource_groups.tag = "Loaded" /\ d.rbac.tag = "Loaded"
    THEN IF sel # NoneSelected /\ sel < Len(d.resource_groups.value)
         THEN LET rg == d.resource_groups.value[sel + 1]
                  assignments == Filter(d.rbac.value, rg.id)
              IN  IF assignments = <<>> THEN << <<"No role assignments.">> >>
                  ELSE [i \in 1..Len(assignments) |->
                         <<assignments[i].role, ": ">>
                             \o PrincipalText(d, assignments[i].principal_id)]
         ELSE << <<"No resource group selected.">> >>
    ELSE IF d.resource_groups.tag = "Loading" \/ d.rbac.tag = "Loading"
    THEN << <<"Loading...">> >>
    ELSE IF d.resource_groups.tag = "Failed"
    THEN << <<"Error: ", d.resource_groups.error>> >>
    ELSE IF d.rbac.tag = "Failed"
    THEN << <<"Error: ", d.rbac.error>> >>
    ELSE << <<"Not loaded.">> >>

NoFrame == [left |-> <<>>, right |-> <<>>]

\* ------------------------------------------ ResourceGroupTuiArgs::invoke
\* the order of the five builder chains
EnqueueOrder ==
    <<"resource_groups", "rbac", "service_principals", "users", "security_groups">>

SetupPcs ==
    <<"enqueue_resource_groups", "enqueue_rbac", "enqueue_service_principals",
      "enqueue_users", "enqueue_security_groups">>

AfterSetup(i) == IF i < Len(SetupPcs) THEN SetupPcs[i + 1] ELSE "init"

Init ==
    /\ pc = SetupPcs[1]
    /\ data = AppDataDefault
    /\ chan = <<>>
    /\ tasks = <<>>
    /\ rg_list_state = NoneSelected
    /\ terminal = "normal"
    /\ frame = NoFrame
    /\ builder = BuilderNew
    /\ built = NotBuilt
    /\ sent = <<>>
    /\ applied = <<>>
    /\ undrawn = FALSE

\* LoadableWorkBuilder::new().description(..).setter(..).work(..).build()?.enqueue(..)?
InvokeEnqueue(i) ==
    /\ pc = SetupPcs[i]
    /\ builder' = BuilderChain(EnqueueOrder[i])
    /\ \E r \in BuildResults(builder') :
        /\ built' = r
        /\ IF r.ok
           THEN /\ data' = MarkLoading(r.value, data)
                /\ tasks' = Spawn(r.value, tasks)
                /\ pc' = AfterSetup(i)
           ELSE /\ pc' = "returned_err"
                /\ UNCHANGED <<data, tasks>>
    /\ UNCHANGED <<chan, rg_list_state, terminal, frame, sent, applied, undrawn>>

\* the same chain when the task cannot be spawned: enqueue returns Err, the
\* slot is as it was before the call (spec.md 4.3) and `?` leaves invoke
InvokeEnqueueFails(i) ==
    /\ pc = SetupPcs[i]
    /\ builder' = BuilderChain(EnqueueOrder[i])
    /\ \E r \in BuildResults(builder') :
        /\ built' = r
        /\ data' = IF r.ok THEN SpawnFailed(r.value, data) ELSE data
    /\ pc' = "returned_err"
    /\ UNCHANGED <<tasks, chan, rg_list_state, terminal, frame, sent, applied, undrawn>>

\* ratatui::init()
TerminalInit ==
    /\ pc = "init"
    /\ terminal' = "tui"
    /\ pc' = "clear"
    /\ UNCHANGED <<data, chan, tasks, rg_list_state, frame, builder, built, sent,
                   applied, undrawn>>

\* terminal.clear()?
TerminalClear ==
    /\ pc = "clear"
    /\ pc' \in {"handle_messages", "returned_err"}
    /\ UNCHANGED <<data, chan, tasks, rg_list_state, terminal, frame, builder, built,
                   sent, applied, undrawn>>

\* (mutant) a blocking receive: the call waits until a closure is queued
HandleMessagesBlocking ==
    /\ pc = "handle_messages"
    /\ chan # <<>>
    /\ HandleMessagesEffect
    /\ undrawn' = TRUE
    /\ pc' = "poll"
    /\ UNCHANGED <<tasks, rg_list_state, terminal, frame, builder, built, sent>>

\* app.work.handle_messages(&mut app.data)?  (a merge closure cannot fail,
\* spec.md 7, so the call returns Ok)
HandleMessages ==
    /\ pc = "handle_messages"
    /\ HandleMessagesEffect
    /\ undrawn' = (undrawn \/ chan # <<>>)
    /\ pc' = "poll"
    /\ UNCHANGED <<tasks, rg_list_state, terminal, frame, builder, built, sent>>

\* (mutant) with no event pending the loop goes to its sleep without drawing
PollEmptySkipsDraw ==
    /\ pc = "poll"
    /\ pc' = "sleep"
    /\ UNCHANGED <<data, chan, tasks, rg_list_state, terminal, frame, builder, built,
                   sent, applied, undrawn>>

\* event::poll returned Ok(false): the while loop ends
PollEmpty ==
    /\ pc = "poll"
    /\ pc' = "draw"
    /\ UNCHANGED <<data, chan, tasks, rg_list_state, terminal, frame, builder, built,
                   sent, applied, undrawn>>

\* (mutant) the check of key.kind is missing: a Release is handled like a Press
PollEventAnyKind(e) ==
    /\ pc = "poll"
    /\ IF e.type = "Key" /\ e.code \in {"Esc", "q"}
       THEN /\ pc' = "restore"
            /\ UNCHANGED rg_list_state
       ELSE /\ pc' = "poll"
            /\ rg_list_state' =
                 IF e.type = "Key" THEN OnKey(e.code, rg_list_state) ELSE rg_list_state
    /\ UNCHANGED <<data, chan, tasks, terminal, frame, builder, built, sent, applied,
                   undrawn>>

\* (mutant) a key outside the match arms reloads the resource groups
PollEventReloads(e) ==
    /\ pc = "poll"
    /\ IF IsQuit(e)
       THEN /\ pc' = "restore"
            /\ UNCHANGED rg_list_state
       ELSE /\ pc' = "poll"
            /\ rg_list_state' =
                 IF e.type = "Key" /\ e.kind = "Press"
                 THEN OnKey(e.code, rg_list_state) ELSE rg_list_state
    /\ data' = IF e.type = "Key" /\ e.kind = "Press" /\ e.code = "Other"
               THEN [data EXCEPT !.resource_groups = Loading] ELSE data
    /\ UNCHANGED <<chan, tasks, terminal, frame, builder, built, sent, applied, undrawn>>

\* event::poll returned Ok(true) and event::read returned Ok(e)
PollEvent(e) ==
    /\ pc = "poll"
    /\ IF IsQuit(e)
       THEN /\ pc' = "restore"
            /\ UNCHANGED rg_list_state
       ELSE /\ pc' = "poll"
            /\ rg_list_state' =
                 IF e.type = "Key" /\ e.kind = "Press"
                 THEN OnKey(e.code, rg_list_state) ELSE rg_list_state
    /\ UNCHANGED <<data, chan, tasks, terminal, frame, builder, built, sent, applied,
                   undrawn>>

\* event::poll(..)? or event::read()? returned Err
PollError ==
    /\ pc = "poll"
    /\ pc' = "returned_err"
    /\ UNCHANGED <<data, chan, tasks, rg_list_state, terminal, frame, builder, built,
                   sent, applied, undrawn>>

\* (mutant) the draw closure moves the loaded Vec out of the slot
DrawTakesLoaded ==
    /\ pc = "draw"
    /\ rg_list_state' = ListRender(RgItems(data), rg_list_state)
    /\ frame' = [left |-> RgItems(data), right |-> RightWidget(data, rg_list_state')]
    /\ data' = [data EXCEPT !.resource_groups =
                    IF @.tag = "Loaded" THEN NotLoaded ELSE @]
    /\ undrawn' = FALSE
    /\ pc' = "sleep"
    /\ UNCHANGED <<chan, tasks, terminal, builder, built, sent, applied>>

\* terminal.draw(|f| ..)?
Draw ==
    /\ pc = "draw"
    /\ rg_list_state' = ListRender(RgItems(data), rg_list_state)
    /\ frame' = [left |-> RgItems(data), right |-> RightWidget(data, rg_list_state')]
    /\ undrawn' = FALSE
    /\ pc' = "sleep"
    /\ UNCHANGED <<data, chan, tasks, terminal, builder, built, sent, applied>>

DrawError ==
    /\ pc = "draw"
    /\ pc' = "returned_err"
    /\ UNCHANGED <<data, chan, tasks, rg_list_state, terminal, frame, builder, built,
                   sent, applied, undrawn>>

\* the current-thread runtime polls spawned tasks only while the block_on
\* future is suspended, and its only await is the sleep
TaskMayRun == pc = "sleep"

TaskStep == TaskMayRun /\ \E t \in 1..Len(tasks) : TaskComplete(t)

\* (mutant) handle_messages is called once before `'outer: loop`, not in it
WakeSkipsDrain ==
    /\ pc = "sleep"
    /\ pc' = "poll"
    /\ UNCHANGED <<data, chan, tasks, rg_list_state, terminal, frame, builder, built,
                   sent, applied, undrawn>>

\* tokio::time::sleep(50 ms) elapses and the loop starts over
Wake ==
    /\ pc = "sleep"
    /\ pc' = "handle_messages"
    /\ UNCHANGED <<data, chan, tasks, rg_list_state, terminal, frame, builder, built,
                   sent, applied, undrawn>>

\* ratatui::restore(); eyre::Ok(())
Restore ==
    /\ pc = "restore"
    /\ terminal' = "normal"
    /\ pc' = "returned_ok"
    /\ UNCHANGED <<data, chan, tasks, rg_list_state, frame, builder, built, sent,
                   applied, undrawn>>

Next ==
    \/ \E i \in 1..Len(SetupPcs) : InvokeEnqueue(i)
    \/ \E i \in 1..Len(SetupPcs) : InvokeEnqueueFails(i)
    \/ TerminalInit
    \/ TerminalClear
    \/ HandleMessages
    \/ PollEmpty
    \/ \E e \in Events : PollEvent(e)
    \/ PollError
    \/ Draw
    \/ DrawError
    \/ TaskStep
    \/ Wake
    \/ Restore

Spec == Init /\ [][Next]_vars

\* ------------------------------------------- any caller of app_work
\* The library's contract apart from invoke: a caller on the owning thread
\* enqueues descriptors (the same slot as often as it likes) and drains,
\* while tasks complete at any moment on the task runner.
CallerSlots == {"resource_groups", "users"}

InitCaller ==
    /\ pc = "caller"
    /\ data = AppDataDefault
    /\ chan = <<>>
    /\ tasks = <<>>
    /\ rg_list_state = NoneSelected
    /\ terminal = "normal"
    /\ frame = NoFrame
    /\ builder = BuilderNew
    /\ built = NotBuilt
    /\ sent = <<>>
    /\ applied = <<>>
    /\ undrawn = FALSE

\* a whole builder chain followed by enqueue(&work, &mut data) returning Ok
CallerEnqueue(s) ==
    /\ pc = "caller"
    /\ Len(tasks) < MaxTasks
    /\ builder' = BuilderChain(s)
    /\ \E r \in BuildResults(builder') :
        /\ built' = r
        /\ r.ok
        /\ data' = MarkLoading(r.value, data)
        /\ tasks' = Spawn(r.value, tasks)
    /\ UNCHANGED <<pc, chan, rg_list_state, terminal, frame, sent, applied, undrawn>>

\* the same with enqueue returning Err: nothing was spawned
CallerEnqueueFails(s) ==
    /\ pc = "caller"
    /\ builder' = BuilderChain(s)
    /\ \E r \in BuildResults(builder') :
        /\ built' = r
        /\ data' = IF r.ok THEN SpawnFailed(r.value, data) ELSE data
    /\ UNCHANGED <<pc, chan, tasks, rg_list_state, terminal, frame, sent, applied, undrawn>>

\* work.handle_messages(&mut data)
CallerHandleMessages ==
    /\ pc = "caller"
    /\ HandleMessagesEffect
    /\ UNCHANGED <<pc, tasks, rg_list_state, terminal, frame, builder, built, sent,
                   undrawn>>

CallerTaskStep == pc = "caller" /\ \E t \in 1..Len(tasks) : TaskComplete(t)

NextCaller ==
    \/ \E s \in CallerSlots : CallerEnqueue(s)
    \/ \E s \in CallerSlots : CallerEnqueueFails(s)
    \/ CallerHandleMessages
    \/ CallerTaskStep

SpecCaller == InitCaller /\ [][NextCaller]_vars

\* --------------------------------------- any use of LoadableWorkBuilder
\* The builder's methods called one at a time, in any order and any subset,
\* before build(); a built descriptor may then be enqueued.
InitBuilder ==
    /\ pc = "builder"
    /\ data = AppDataDefault
    /\ chan = <<>>
    /\ tasks = <<>>
    /\ rg_list_state = NoneSelected
    /\ terminal = "normal"
    /\ frame = NoFrame
    /\ builder = BuilderNew
    /\ built = NotBuilt
    /\ sent = <<>>
    /\ applied = <<>>
    /\ undrawn = FALSE

\* LoadableWorkBuilder::new()
BuilderStart ==
    /\ pc = "builder"
    /\ builder' = BuilderNew
    /\ built' = NotBuilt
    /\ UNCHANGED <<pc, data, chan, tasks, rg_list_state, terminal, frame, sent,
                   applied, undrawn>>

\* .description(d)
BuilderDescription(s) ==
    /\ pc = "builder"
    /\ built = NotBuilt
    /\ builder' = Description(builder, Descriptions[s])
    /\ UNCHANGED <<pc, data, chan, tasks, rg_list_state, terminal, frame, built, sent,
                   applied, undrawn>>

\* .setter(f): the setter and the future share the builder's type parameter T
BuilderSetter(s) ==
    /\ pc = "builder"
    /\ built = NotBuilt
    /\ builder.work \in {None, s}
    /\ builder' = WithSetter(builder, s)
    /\ UNCHANGED <<pc, data, chan, tasks, rg_list_state, terminal, frame, built, sent,
                   applied, undrawn>>

\* .work(future)
BuilderWork(s) ==
    /\ pc = "builder"
    /\ built = NotBuilt
    /\ builder.setter \in {None, s}
    /\ builder' = Work(builder, s)
    /\ UNCHANGED <<pc, data, chan, tasks, rg_list_state, terminal, frame, built, sent,
                   applied, undrawn>>

\* .build(): `builder` keeps what build() was called on
BuilderBuild ==
    /\ pc = "builder"
    /\ built = NotBuilt
    /\ built' \in BuildResults(builder)
    /\ UNCHANGED <<pc, data, chan, tasks, rg_list_state, terminal, frame, builder, sent,
                   applied, undrawn>>

\* descriptor.enqueue(&work, &mut data) returning Ok; the descriptor is consumed
BuilderEnqueue ==
    /\ pc = "builder"
    /\ built.ok
    /\ Len(tasks) < MaxBuilt
    /\ data' = MarkLoading(built.value, data)
    /\ tasks' = Spawn(built.value, tasks)
    /\ builder' = BuilderNew
    /\ built' = NotBuilt
    /\ UNCHANGED <<pc, chan, rg_list_state, terminal, frame, sent, applied, undrawn>>

BuilderHandleMessages ==
    /\ pc = "builder"
    /\ HandleMessagesEffect
    /\ UNCHANGED <<pc, tasks, rg_list_state, terminal, frame, builder, built, sent,
                   undrawn>>

BuilderTaskStep == pc = "builder" /\ \E t \in 1..Len(tasks) : TaskComplete(t)

NextBuilder ==
    \/ BuilderStart
    \/ \E s \in CallerSlots : BuilderDescription(s)
    \/ \E s \in CallerSlots : BuilderSetter(s)
    \/ \E s \in CallerSlots : BuilderWork(s)
    \/ BuilderBuild
    \/ BuilderEnqueue
    \/ BuilderHandleMessages
    \/ BuilderTaskStep

SpecBuilder == InitBuilder /\ [][NextBuilder]_vars

\* ----------------------------- the program, or any other use of app_work
InitAll == Init \/ InitCaller \/ InitBuilder

NextAll == Next \/ NextCaller \/ NextBuilder

SpecAll == InitAll /\ [][NextAll]_vars

\* ------------------------------------------------------------ properties
LoopPcs == {"handle_messages", "poll", "draw", "sleep"}

EnqueuePcs == {SetupPcs[i] : i \in 1..Len(SetupPcs)}

IsApplied(t) == \E i \in 1..Len(applied) : applied[i] = t

\* the terminal Loadable a future's result stands for, written out
TerminalOf(result) ==
    IF result.ok THEN [tag |-> "Loaded", value |-> result.value]
    ELSE [tag |-> "Failed", error |-> result.error.msg]

AllLoading == \A s \in Slots : data[s].tag = "Loading"

\* this step is an enqueue that returned Ok for slot s
EnqueuedNow(s) ==
    /\ Len(tasks') = Len(tasks) + 1
    /\ tasks'[Len(tasks')].setter = s

\* this step is a drain that invoked a closure for slot s
AppliedNow(s) ==
    \E i \in Len(applied) + 1..Len(applied') : tasks[applied'[i]].setter = s

AllDone == \A t \in 1..Len(tasks) : tasks[t].state = "done"

\* C1: app.data is changed only by steps of the owning thread, in enqueue
\* (one slot becomes Loading) and in handle_messages; a task's completion
\* step pushes one closure onto the channel and leaves app.data as it is.
C1_OnlyOwnerChangesData ==
    [][/\ data' # data =>
            \/ pc = "handle_messages"
            \/ pc \in {"caller", "builder"} /\ Len(applied') > Len(applied)
            \/ /\ pc \in EnqueuePcs \cup {"caller", "builder"}
               /\ \E s \in Slots :
                    /\ EnqueuedNow(s)
                    /\ data'[s] = Loading
                    /\ \A f \in DOMAIN data : f # s => data'[f] = data[f]
       /\ TaskStep \/ CallerTaskStep \/ BuilderTaskStep =>
            /\ data' = data
            /\ Len(chan') = Len(chan) + 1
            /\ SubSeq(chan', 1, Len(chan)) = chan]_vars

\* a merge has run on the owning thread while another task's closure waits
\* in the channel, its slot still Loading
C1_Witness ==
    /\ pc = "sleep"
    /\ Len(applied) > 0
    /\ Len(chan) > 0
    /\ \A i \in 1..Len(chan) : data[chan[i].setter].tag = "Loading"

\* C2: the state right after an enqueue that returned Ok has the slot Loading,
\* and at terminal.draw none of the five slots is NotLoaded.
C2_LoadingBeforeFirstDraw ==
    /\ [][\A i \in 1..Len(SetupPcs) :
            pc = SetupPcs[i] /\ pc' = AfterSetup(i) => data'[EnqueueOrder[i]] = Loading]_vars
    /\ [](pc = "draw" => \A s \in Slots : data[s].tag # "NotLoaded")

\* the first terminal.draw is about to run and all five slots are Loading
C2_Witness == pc = "draw" /\ frame = NoFrame /\ AllLoading

\* C3: a slot is Loading from its enqueue until the drain that applies its
\* task's closure; the first handle_messages that runs after the task has
\* completed applies it, and the slot is then Loaded with the future's value,
\* or Failed with the text of the future's error.
C3_ResultDecidesSlot ==
    /\ [](\A t \in 1..Len(tasks) :
            IF IsApplied(t)
            THEN /\ tasks[t].state = "done"
                 /\ data[tasks[t].setter] = TerminalOf(tasks[t].result)
            ELSE data[tasks[t].setter].tag = "Loading")
    /\ [][pc = "handle_messages" /\ pc' # pc =>
            \A t \in 1..Len(tasks) :
                tasks[t].state = "done" =>
                    \E i \in 1..Len(applied') : applied'[i] = t]_vars

\* one slot is Loaded with its value, one is Failed with "boom", and one is
\* still Loading although its task has completed
C3_Witness ==
    /\ data.resource_groups.tag = "Loaded"
    /\ data.resource_groups.value \in ResourceGroupValues
    /\ data.rbac = [tag |-> "Failed", error |-> "boom"]
    /\ data.users.tag = "Loading"
    /\ \E t \in 1..Len(tasks) : tasks[t].setter = "users" /\ tasks[t].state = "done"

\* C4 as stated: after the first handle_messages of the loop, which follows
\* the five enqueues with no await in between, every slot is Loaded or
\* Failed and none is Loading.
C4_FirstDrainSettlesAll ==
    pc = "poll" /\ frame = NoFrame => \A s \in Slots : IsTerminal(data[s])

\* C4, amended: after a handle_messages that starts when all five tasks have
\* completed, every slot is Loaded or Failed and none is Loading.
C4_DrainAfterCompletionSettlesAll ==
    [][pc = "handle_messages" /\ pc' # pc /\ Len(tasks) = Len(SetupPcs) /\ AllDone =>
            \A s \in Slots : IsTerminal(data'[s])]_vars

\* all five closures were queued during one sleep and one drain applied them
C4_Witness ==
    /\ pc = "poll"
    /\ Len(applied) = Len(SetupPcs)
    /\ frame.left = << <<"Loading resource groups...">> >>
    /\ frame.right = << <<"Loading...">> >>
    /\ \A s \in Slots : IsTerminal(data[s])
    /\ \E s \in Slots : data[s].tag = "Failed"

\* the position in q of the last closure for slot s, or 0
LastFor(q, s) ==
    LET at == {i \in 1..Len(q) : q[i].setter = s}
    IN  IF at = {} THEN 0 ELSE CHOOSE i \in at : \A j \in at : j <= i

\* C5: one handle_messages call takes every closure that is queued when it
\* starts and invokes them in the order they were pushed; afterwards none of
\* them is left in the channel.
C5_DrainIsFifo ==
    /\ [](/\ Len(applied) <= Len(sent)
          /\ applied = SubSeq(sent, 1, Len(applied))
          /\ TaskIds(chan) = SubSeq(sent, Len(applied) + 1, Len(sent)))
    /\ [][Len(applied') > Len(applied) =>
            /\ chan' = <<>>
            /\ applied' = applied \o TaskIds(chan)
            /\ \A s \in Slots :
                LastFor(chan, s) # 0 => data'[s] = chan[LastFor(chan, s)].loadable]_vars

\* three tasks completed out of spawn order and the channel has been drained:
\* their closures were invoked in the order pushed, and the slot two of them
\* share holds what the later of the two carried
C5_Witness ==
    /\ pc = "caller"
    /\ chan = <<>>
    /\ Len(applied) = 3
    /\ applied[1] # 1
    /\ applied = sent
    /\ tasks[applied[3]].setter = tasks[applied[1]].setter
    /\ tasks[applied[3]].result # tasks[applied[1]].result
    /\ data[tasks[applied[3]].setter] = TerminalOf(tasks[applied[3]].result)

\* C6: handle_messages on an empty channel returns Ok and leaves app_state as
\* it was, however often it is repeated.
C6_EmptyDrainIsNoOp ==
    [][/\ pc = "handle_messages" /\ chan = <<>> =>
            (pc' = "poll" /\ data' = data /\ applied' = applied /\ chan' = <<>>)
       /\ CallerHandleMessages /\ chan = <<>> =>
            (data' = data /\ applied' = applied /\ chan' = <<>>)]_vars

\* the loop has drained an empty channel at least twice: nothing was ever
\* sent, a frame was drawn, and every slot is still Loading
C6_Witness ==
    /\ pc = "poll"
    /\ sent = <<>>
    /\ frame # NoFrame
    /\ AllLoading

\* C7: a slot moves only NotLoaded -> Loading -> {Loaded | Failed}: it never
\* returns to NotLoaded, it returns to Loading only when the caller enqueues
\* it again, it never leaves NotLoaded for Loaded or Failed directly, and in
\* invoke a slot that is Loaded or Failed stays exactly as it is.
C7_LoadableNeverRegresses ==
    [][\A s \in Slots :
        /\ data[s].tag = "NotLoaded" => data'[s].tag \in {"NotLoaded", "Loading"}
        /\ data[s].tag = "Loading" => data'[s].tag \in {"Loading", "Loaded", "Failed"}
        /\ IsTerminal(data[s]) =>
            /\ data'[s].tag \in {"Loading", "Loaded", "Failed"}
            /\ data'[s].tag = "Loading" => EnqueuedNow(s)
            /\ pc \notin {"caller", "builder"} => data'[s] = data[s]]_vars

\* a slot that had Failed is Loading again after the caller enqueued it anew
C7_Witness ==
    /\ pc = "caller"
    /\ data.users.tag = "Loading"
    /\ \E i \in 1..Len(applied) :
        /\ tasks[applied[i]].setter = "users"
        /\ ~tasks[applied[i]].result.ok
    /\ \E t \in 1..Len(tasks) : tasks[t].setter = "users" /\ tasks[t].state = "running"

\* C8: enqueue sets the slot to Loading whatever it held, and the slot stays
\* Loading until a handle_messages call invokes a closure for that slot.
C8_EnqueueResetsToLoading ==
    [][\A s \in Slots :
        /\ EnqueuedNow(s) => data'[s] = Loading
        /\ data[s].tag = "Loading" /\ data'[s].tag # "Loading" => AppliedNow(s)]_vars

\* a Loaded slot was enqueued again and is Loading, no new completion queued
C8_Witness ==
    /\ pc = "caller"
    /\ data.resource_groups.tag = "Loading"
    /\ chan = <<>>
    /\ Len(applied) = 1
    /\ tasks[applied[1]].setter = "resource_groups"
    /\ tasks[applied[1]].result.ok
    /\ Len(tasks) = 2
    /\ tasks[2].setter = "resource_groups"

\* the tasks whose closures were invoked for slot s, in the order of invocation
AppliedFor(s) == SelectSeq(applied, LAMBDA t : tasks[t].setter = s)

\* C9: completions are not fenced by generation: a slot that is Loaded or
\* Failed holds the result carried by the closure invoked last for it,
\* whichever enqueue that closure stems from; and once every task of a slot
\* has been applied the slot is Loaded or Failed.
C9_LastWriteWins ==
    \A s \in Slots :
        LET for == AppliedFor(s)
        IN  /\ IsTerminal(data[s]) =>
                /\ for # <<>>
                /\ data[s] = TerminalOf(tasks[for[Len(for)]].result)
            /\ (for # <<>> /\ \A t \in 1..Len(tasks) : tasks[t].setter = s => IsApplied(t))
                    => IsTerminal(data[s])

\* the slot holds the older task's result although the newer task's result
\* had been applied before it
C9_Witness ==
    /\ pc = "caller"
    /\ \E i, j \in 1..Len(applied) :
        /\ i < j
        /\ applied[i] > applied[j]
        /\ tasks[applied[i]].setter = "users"
        /\ tasks[applied[j]].setter = "users"
        /\ tasks[applied[i]].result.ok
        /\ tasks[applied[j]].result.ok
        /\ tasks[applied[i]].result # tasks[applied[j]].result
        /\ data.users = TerminalOf(tasks[applied[j]].result)
        /\ \A t \in 1..Len(tasks) : tasks[t].setter = "users" => t \in {applied[i], applied[j]}

\* C10: build returns Ok exactly when description, setter and work are all
\* set, and then the descriptor holds them; otherwise it returns a
\* MissingField error naming a field that is absent. The errors for the
\* three fields differ, build changes neither app_state nor the scheduler,
\* and each of invoke's five chains builds Ok.
C10_BuildNeedsAllThree ==
    /\ [](built # NotBuilt =>
            /\ built.ok <=> (/\ builder.description # None
                             /\ builder.setter # None
                             /\ builder.work # None)
            /\ built.ok => built.value = builder
            /\ ~built.ok =>
                /\ built.error.kind = "MissingField"
                /\ built.error.field \in Fields
                /\ builder[built.error.field] = None
            /\ pc \notin {"caller", "builder"} => built.ok)
    /\ [](\A f, g \in Fields : f # g => MissingField(f) # MissingField(g))
    /\ [][pc = "builder" /\ built = NotBuilt /\ built' # NotBuilt =>
            (data' = data /\ tasks' = tasks /\ chan' = chan)]_vars

\* build was called with only work absent, after an earlier descriptor had
\* been enqueued, and returned the MissingField error naming work
C10_Witness ==
    /\ pc = "builder"
    /\ builder.description # None
    /\ builder.setter # None
    /\ builder.work = None
    /\ built = Err(MissingField("work"))
    /\ Len(tasks) = 1
    /\ data[tasks[1].setter].tag = "Loading"

\* C11: a failed spawn is reported by enqueue at once (invoke returns the
\* error before the terminal is initialised) and spawns nothing; afterwards
\* the slot is not Loading, unless an earlier task for that slot is still to
\* be applied.
C11_FailedSpawnNotStuckLoading ==
    [][/\ \A i \in 1..Len(SetupPcs) :
            InvokeEnqueueFails(i) =>
                /\ pc' = "returned_err"
                /\ terminal' = "normal"
                /\ tasks' = tasks
                /\ chan' = chan
                /\ data'[EnqueueOrder[i]].tag # "Loading"
       /\ \A s \in CallerSlots :
            CallerEnqueueFails(s) =>
                /\ tasks' = tasks
                /\ chan' = chan
                /\ data'[s].tag = "Loading" =>
                        \E t \in 1..Len(tasks) : tasks[t].setter = s /\ ~IsApplied(t)]_vars

\* the enqueue for users failed after three slots had been enqueued: invoke
\* has returned the error, users is NotLoaded and no task exists for it
C11_Witness ==
    /\ pc = "returned_err"
    /\ terminal = "normal"
    /\ builder.setter = "users"
    /\ data.users.tag = "NotLoaded"
    /\ data.service_principals.tag = "Loading"
    /\ Len(tasks) = 3
    /\ \A t \in 1..Len(tasks) : tasks[t].setter # "users"

\* C12: a future that resolves to an error stops neither the loop nor the
\* other slots: handle_messages goes on to the input poll whatever it applied,
\* the loop is left only from the input poll or the draw and never by a step
\* that changes app.data, and every slot whose completion carried Ok and has
\* been applied is Loaded with its own value, whichever other slots failed.
C12_FailureIsolated ==
    [][/\ (pc = "handle_messages" /\ pc' # pc) => pc' = "poll"
       /\ (pc \in LoopPcs /\ pc' \notin LoopPcs) =>
            /\ pc \in {"poll", "draw"}
            /\ data' = data
       /\ \A t \in 1..Len(tasks') :
            (/\ \E i \in 1..Len(applied') : applied'[i] = t
             /\ tasks'[t].result.ok)
            => data'[tasks'[t].setter] = Loaded(tasks'[t].result.value)]_vars

\* rbac failed and was applied first; resource_groups and users were applied
\* after it and are Loaded, and the loop is still running
C12_Witness ==
    /\ pc = "sleep"
    /\ data.rbac.tag = "Failed"
    /\ data.resource_groups.tag = "Loaded"
    /\ data.users.tag = "Loaded"
    /\ Len(applied) >= 3
    /\ tasks[applied[1]].setter = "rbac"

\* the text occurs in an item of one of the two panes of the frame
Shows(f, text) ==
    \/ \E i \in 1..Len(f.left) : \E j \in 1..Len(f.left[i]) : f.left[i][j] = text
    \/ \E i \in 1..Len(f.right) : \E j \in 1..Len(f.right[i]) : f.right[i][j] = text

\* C13: every draw shows, for each of the five slots that is Failed when it
\* runs, that slot's error text in the frame it renders.
C13_FailedSlotIsRendered ==
    [][(pc = "draw" /\ pc' = "sleep") =>
            \A s \in Slots : data[s].tag = "Failed" => Shows(frame', data[s].error)]_vars

\* C13 (what the draw does show): the error of resource_groups whenever it is
\* Failed, and the error of rbac when resource_groups is Loaded or NotLoaded.
C13_RenderedFailures ==
    [][(pc = "draw" /\ pc' = "sleep") =>
            /\ data.resource_groups.tag = "Failed" =>
                    /\ frame'.left = << <<"Error: ", data.resource_groups.error>> >>
                    /\ data.rbac.tag # "Loading" =>
                         frame'.right = << <<"Error: ", data.resource_groups.error>> >>
            /\ (data.rbac.tag = "Failed"
                    /\ data.resource_groups.tag \in {"Loaded", "NotLoaded"}) =>
                    frame'.right = << <<"Error: ", data.rbac.error>> >>]_vars

\* a frame drawn while users is Failed and nothing else is: no error text in it
C13_Witness ==
    /\ pc = "sleep"
    /\ data.users.tag = "Failed"
    /\ \A s \in Slots \ {"users"} : data[s].tag # "Failed"
    /\ ~Shows(frame, data.users.error)

\* the order of one iteration: handle_messages, input poll, draw, sleep; the
\* poll may leave the loop (quit key, I/O error) and so may the draw (I/O error)
LoopOrder ==
    /\ pc = "handle_messages" => pc' \in {"handle_messages", "poll"}
    /\ pc = "poll" => pc' \in {"poll", "draw", "restore", "returned_err"}
    /\ pc = "draw" => pc' \in {"draw", "sleep", "returned_err"}
    /\ pc = "sleep" => pc' \in {"sleep", "handle_messages"}

\* C14 (as stated): the iteration runs handle_messages, input poll, draw, sleep,
\* and a batch applied by handle_messages has been drawn when the loop exits
\* on the quit key, also when the key is read in the iteration of that batch.
C14_AppliedBatchDrawnBeforeQuit ==
    [][/\ LoopOrder
       /\ (pc = "poll" /\ pc' = "restore") => ~undrawn]_vars

\* C14 (amended): the iteration runs handle_messages, input poll, draw, sleep;
\* app.data does not change between handle_messages and the draw; the draw
\* renders the state it finds; and the loop never reaches its sleep with an
\* applied batch not drawn, so a batch stays undrawn only when the loop is left
\* from the input poll or the draw of the same iteration.
C14_AppliedBatchDrawnBeforeSleep ==
    [][/\ LoopOrder
       /\ pc \in {"poll", "draw"} => data' = data
       /\ (pc = "draw" /\ pc' = "sleep") =>
            /\ frame'.left = RgItems(data)
            /\ frame'.right = RightWidget(data, rg_list_state')
       /\ pc' \in {"sleep", "handle_messages"} => ~undrawn']_vars

\* a batch with the resource groups was applied and drawn, and the loop sleeps
C14_Witness ==
    /\ pc = "sleep"
    /\ applied # <<>>
    /\ data.resource_groups.tag = "Loaded"
    /\ frame.left = RgItems(data)
    /\ ~undrawn

\* ------------------------------------------------ invoke, scheduled fairly
\* task t is polled by the runtime while the loop sleeps, and its future resolves
TaskRuns(t) == TaskMayRun /\ t \in 1..Len(tasks) /\ TaskComplete(t)

\* the events that do not move the selection: a quit key, any other key, a resize
LiveEvents == {e \in Events : e.type = "Key" => e.code \in {"q", "Other"}}

NextFair ==
    \/ \E i \in 1..Len(SetupPcs) : InvokeEnqueue(i)
    \/ \E i \in 1..Len(SetupPcs) : InvokeEnqueueFails(i)
    \/ TerminalInit
    \/ TerminalClear
    \/ HandleMessages
    \/ PollEmpty
    \/ \E e \in LiveEvents : PollEvent(e)
    \/ PollError
    \/ Draw
    \/ DrawError
    \/ TaskStep
    \/ Wake
    \/ Restore

\* The owning thread runs on from each statement to the next; the zero-timeout
\* poll finds the event queue empty sooner or later; the 50 ms timer elapses;
\* and a spawned task whose future resolves is polled to completion during one
\* of the sleeps (strong fairness: a task can only run while the loop sleeps).
SpecFair ==
    /\ Init
    /\ [][NextFair]_vars
    /\ WF_vars(\E i \in 1..Len(SetupPcs) : InvokeEnqueue(i))
    /\ WF_vars(TerminalInit)
    /\ WF_vars(TerminalClear)
    /\ WF_vars(HandleMessages)
    /\ WF_vars(PollEmpty)
    /\ WF_vars(Draw)
    /\ WF_vars(Wake)
    /\ \A t \in 1..Len(SetupPcs) : SF_vars(TaskRuns(t))

\* invoke has left the loop or never entered it
Exited == pc \in {"restore", "returned_ok", "returned_err"}

\* C15: under fair scheduling of the loop and of the task runner, unless
\* invoke leaves the loop, there comes a moment from which every slot is
\* Loaded or Failed and the channel is empty: no slot stays Loading and no
\* completion message stays in the channel forever.
C15_EverySlotSettles ==
    <>(Exited \/ [](/\ chan = <<>>
                    /\ \A s \in Slots : data[s].tag \in {"Loaded", "Failed"}))

\* all five completions were applied, one of them a failure, the channel is
\* empty and the loop is still running
C15_Witness ==
    /\ pc = "sleep"
    /\ chan = <<>>
    /\ Len(applied) = Len(SetupPcs)
    /\ \A s \in Slots : data[s].tag \in {"Loaded", "Failed"}
    /\ data.security_groups.tag = "Failed"
    /\ data.resource_groups.tag = "Loaded"

QuitKey == [type |-> "Key", kind |-> "Press", code |-> "q"]

\* C16: the owning thread never waits for a task: wherever it stands in the
\* loop its next statement can run whatever the tasks have done, the quit key
\* read by the input poll leaves the loop even while every slot is Loading,
\* and a task can run only while the loop is in its sleep.
C16_LoopNeverWaits ==
    /\ pc = "handle_messages" => ENABLED HandleMessages
    /\ pc = "poll" =>
        /\ ENABLED PollEmpty
        /\ ENABLED (PollEvent(QuitKey) /\ pc' = "restore")
    /\ pc = "draw" => ENABLED Draw
    /\ pc = "sleep" => ENABLED Wake
    /\ pc = "restore" => ENABLED Restore
    /\ (ENABLED TaskStep) => pc = "sleep"

\* the quit key was read while all five slots were Loading, and invoke returned
C16_Witness ==
    /\ pc = "returned_ok"
    /\ AllLoading
    /\ sent = <<>>
    /\ terminal = "normal"

\* C17: the loop is left by `break 'outer` exactly when the event read is a
\* key Press of Esc or 'q'; an event that is not a key Press changes nothing;
\* the exit cancels no task and removes nothing from the channel; and from the
\* exit on no closure is invoked and app.data, the channel and the tasks stay
\* as they are.
C17_QuitKeyEndsLoop ==
    [][/\ \A e \in Events :
            PollEvent(e) =>
                /\ pc' = "restore" <=> IsQuit(e)
                /\ (e.type # "Key" \/ e.kind # "Press") => UNCHANGED vars
       /\ pc' = "restore" =>
            /\ pc = "poll"
            /\ \E e \in Events : IsQuit(e) /\ PollEvent(e)
       /\ (pc' \in {"restore", "returned_ok"}) =>
            /\ data' = data
            /\ applied' = applied
            /\ chan' = chan
            /\ tasks' = tasks]_vars

\* invoke returned after the quit key: one completion had been applied, the
\* other tasks are still running, uncancelled, and will never be applied
C17_Witness ==
    /\ pc = "returned_ok"
    /\ Len(applied) = 1
    /\ \E t \in 1..Len(tasks) : tasks[t].state = "running"
    /\ \E s \in Slots : data[s].tag = "Loading"

\* C18: the input handling changes nothing but rg_list_state and the position
\* of the owning thread (on in the poll, to the draw, or out of the loop):
\* app.data and the channel stay as they are and no task is spawned.
C18_InputTouchesOnlySelection ==
    [][pc = "poll" =>
            /\ data' = data
            /\ chan' = chan
            /\ tasks' = tasks
            /\ UNCHANGED <<terminal, frame, builder, built, sent, applied, undrawn>>
            /\ pc' \in {"poll", "draw", "restore", "returned_err"}]_vars

\* Home was pressed while the resource groups are Loaded: the selection is
\* usize::MAX until the next draw, and the data is as it was
C18_Witness ==
    /\ pc = "poll"
    /\ rg_list_state = SelectLast
    /\ data.resource_groups.tag = "Loaded"
    /\ data.rbac.tag = "Loading"

\* invoke has returned
Returned == {"returned_ok", "returned_err"}

\* C19: every return of invoke from inside the loop or after it, by the quit
\* key or by an error of handle_messages, event::poll, event::read or
\* terminal.draw, leaves the terminal restored.
C19_EveryReturnRestores ==
    [][(pc \in LoopPcs \cup {"restore"} /\ pc' \in Returned) => terminal' = "normal"]_vars

\* C19 (what does hold): the return after the quit key restores the terminal,
\* and a return with the terminal still initialised is an error return.
C19_QuitPathRestores ==
    /\ pc = "returned_ok" => terminal = "normal"
    /\ (pc \in Returned /\ terminal = "tui") => pc = "returned_err"

\* invoke returned an error after at least one frame was drawn, and the
\* terminal is still in the state ratatui::init put it in
C19_Witness ==
    /\ pc = "returned_err"
    /\ terminal = "tui"
    /\ frame # NoFrame

PrincipalSlots == {"service_principals", "users", "security_groups"}

Prefix(slot) ==
    CASE slot = "service_principals" -> "(Service Principal) "
      [] slot = "users" -> "(User) "
      [] slot = "security_groups" -> "(Group) "

Ids(value) == {value[i].id : i \in 1..Len(value)}

\* positions in the history of applied closures that carried a Loaded list of
\* principals with this id
Writers(id) ==
    {i \in 1..Len(applied) :
        /\ tasks[applied[i]].setter \in PrincipalSlots
        /\ tasks[applied[i]].result.ok
        /\ id \in Ids(tasks[applied[i]].result.value)}

\* the entry the closure applied last among Writers(id) has written
LastWritten(id) ==
    IF Writers(id) = {} THEN NoEntry
    ELSE LET i == CHOOSE w \in Writers(id) : \A v \in Writers(id) : v <= w
             t == tasks[applied[i]]
             k == CHOOSE j \in 1..Len(t.result.value) :
                    /\ t.result.value[j].id = id
                    /\ \A l \in j + 1..Len(t.result.value) : t.result.value[l].id # id
         IN  <<Prefix(t.setter), t.result.value[k].display_name>>

DisplayTracks ==
    /\ \A s \in PrincipalSlots :
        data[s].tag = "Loaded" =>
            \A id \in Ids(data[s].value) : data.principal_display[id] # NoEntry
    /\ \A id \in PrincipalIds : data.principal_display[id] = LastWritten(id)

\* C20: principal_display holds an entry for every id of a Loaded
\* service_principals, users or security_groups; each entry is the one written
\* by the completion applied last among those that carried the id; an entry is
\* never removed; and a step changes the entry of an id only by invoking a
\* closure that carries a Loaded list with that id, so a Failed completion
\* leaves the map as it is.  (DisplayTracks reads data, applied and tasks only,
\* so it is evaluated after the steps that change one of them.)
C20_PrincipalDisplayTracks ==
    [][/\ (data' # data \/ applied' # applied \/ tasks' # tasks) => DisplayTracks'
       /\ data' # data => \A id \in PrincipalIds :
            /\ data.principal_display[id] # NoEntry => data'.principal_display[id] # NoEntry
            /\ data'.principal_display[id] # data.principal_display[id] =>
                \E i \in 1..Len(chan) :
                    /\ chan[i].setter \in PrincipalSlots
                    /\ chan[i].loadable.tag = "Loaded"
                    /\ id \in Ids(chan[i].loadable.value)
                    /\ chan' = <<>>]_vars

\* id 1 came with the service principals and then with the users: its entry is
\* the user's; security_groups failed and id 2 has no entry
C20_Witness ==
    /\ data.service_principals.tag = "Loaded"
    /\ data.users.tag = "Loaded"
    /\ data.security_groups.tag = "Failed"
    /\ data.principal_display[1] = <<"(User) ", "alice">>
    /\ data.principal_display[2] = NoEntry
    /\ \E i, j \in 1..Len(applied) :
        /\ i < j
        /\ tasks[applied[i]].setter = "service_principals"
        /\ tasks[applied[j]].setter = "users"

\* ------------------------------------- the draw closure on any AppData
\* The draw applied to every pair of variants of resource_groups and rbac,
\* also those invoke never draws (NotLoaded), with errors that differ.
PaneResourceGroups ==
    {NotLoaded, Loading, Failed("resource groups unavailable")}
        \cup {Loaded(v) : v \in ResourceGroupValues \cup {<<>>}}

PaneRbac ==
    {NotLoaded, Loading, Failed("rbac forbidden")}
        \cup {Loaded(v) : v \in RbacValues \cup {<<>>}}

PaneDisplays ==
    {[p \in PrincipalIds |-> NoEntry],
     [p \in PrincipalIds |-> IF p = 1 THEN <<"(User) ", "alice">> ELSE NoEntry]}

InitPane ==
    /\ pc = "draw"
    /\ \E rg \in PaneResourceGroups, rb \in PaneRbac, pd \in PaneDisplays :
        data = [AppDataDefault EXCEPT !.resource_groups = rg, !.rbac = rb,
                                      !.principal_display = pd]
    /\ chan = <<>>
    /\ tasks = <<>>
    /\ rg_list_state \in {NoneSelected} \cup 0..UsizeMax
    /\ terminal = "tui"
    /\ frame = NoFrame
    /\ builder = BuilderNew
    /\ built = NotBuilt
    /\ sent = <<>>
    /\ applied = <<>>
    /\ undrawn = FALSE

NextPane == Draw

SpecPane == InitPane /\ [][NextPane]_vars

\* the pane shows the assignments of the selected resource group, or says that
\* there are none or that nothing is selected
AssignmentsShown(rgs, rbac, display, sel, right) ==
    IF sel = NoneSelected \/ sel >= Len(rgs)
    THEN right = << <<"No resource group selected.">> >>
    ELSE LET mine == {i \in 1..Len(rbac) : rbac[i].scope = rgs[sel + 1].id}
         IN  IF mine = {} THEN right = << <<"No role assignments.">> >>
             ELSE /\ Len(right) = Cardinality(mine)
                  /\ \A k \in 1..Len(right) :
                        \E i \in mine :
                            /\ right[k][1] = rbac[i].role
                            /\ right[k][Len(right[k])] =
                                 IF display[rbac[i].principal_id] # NoEntry
                                 THEN display[rbac[i].principal_id][2]
                                 ELSE ToString(rbac[i].principal_id)

\* C21: what a draw puts in the role-assignment pane is decided by the
\* variants of resource_groups and rbac, in this order: both Loaded, the
\* assignments (or the no-selection / no-assignments text); else either one
\* Loading, "Loading...", also when the other is Failed; else either one
\* Failed, the error text, that of resource_groups when both failed; else
\* "Not loaded.".  So assignments are shown only when both slots are Loaded.
C21_PanePrecedence ==
    [][(pc = "draw" /\ pc' = "sleep") =>
        LET rg == data.resource_groups
            rb == data.rbac
            right == frame'.right
            both == rg.tag = "Loaded" /\ rb.tag = "Loaded"
            loading == rg.tag = "Loading" \/ rb.tag = "Loading"
        IN  /\ both =>
                AssignmentsShown(rg.value, rb.value, data.principal_display,
                                 rg_list_state', right)
            /\ (~both /\ loading) => right = << <<"Loading...">> >>
            /\ (~both /\ ~loading /\ rg.tag = "Failed") =>
                right = << <<"Error: ", rg.error>> >>
            /\ (~both /\ ~loading /\ rg.tag # "Failed" /\ rb.tag = "Failed") =>
                right = << <<"Error: ", rb.error>> >>
            /\ (~both /\ ~loading /\ rg.tag # "Failed" /\ rb.tag # "Failed") =>
                right = << <<"Not loaded.">> >>
            /\ ~both =>
                /\ Len(right) = 1
                /\ right[1][1] \in {"Loading...", "Error: ", "Not loaded."}]_vars

\* both slots failed with different errors and the pane drawn shows the error
\* of resource_groups
C21_Witness ==
    /\ pc = "sleep"
    /\ data.resource_groups = Failed("resource groups unavailable")
    /\ data.rbac = Failed("rbac forbidden")
    /\ frame.right = << <<"Error: ", "resource groups unavailable">> >>

====
